---- MODULE Spec2Model ----
(***************************************************************************)
(* Auction bidding and settlement engine of the auctioneer backend:        *)
(* auction creation, publish (setup -> live), bid admission with the       *)
(* instant-buy path, and the periodic settlement sweep with its            *)
(* notifications.  Money is counted in the smallest unit (cents), time in  *)
(* ticks of the wall clock.                                                *)
(***************************************************************************)
EXTENDS Integers, Sequences, FiniteSets, TLC

\* ------------------------------------------------------------------------
\* Bounds of the model
\* ------------------------------------------------------------------------
MaxAuctions == 2
MaxTime == 1
MaxDuration == 1
MaxAmount == 3
MaxBids == 2

\* ------------------------------------------------------------------------
\* Program constants and value domains
\* ------------------------------------------------------------------------
\* Python None in a nullable column or field
NULL == -1

\* Decimal("0.01"), the floor used when min_bid is unset (one cent)
DefaultMinBid == 1

\* default of read_objects' limit parameter
QueryLimit == 100

Users == {1, 2}
Products == {1, 2}

\* owner of each product row (products are created outside the engine)
ProductOwner(p) == p

\* values an AuctionCreate payload may carry for the three optional prices
StartingPrices == {NULL, 0, 1, 3}
MinBids == {NULL, 2}
InstantBuyPrices == {NULL, 0, 2}

\* the price list used when several auctions run side by side
ListedStartingPrices == {1}
ListedMinBids == {2}
ListedInstantBuyPrices == {NULL, 2}

\* AuctionUpdate payloads an admin sends: only the fields that are set
AdminUpdates == {[state |-> "live"], [end_time |-> NULL]}

\* sets of send_auction_email calls that raise during one sweep: none, or the
\* one to the owner of one auction
FailingMails ==
    {{}} \cup {{<<a, "owner">>} : a \in 1..MaxAuctions}

\* BidCreate.amount: Decimal, ge=0.01
Amounts == 1..MaxAmount
Durations == 0..MaxDuration

VARIABLES now, auctions, bids, products, outbox, last, inflight

vars == <<now, auctions, bids, products, outbox, last, inflight>>

\* ------------------------------------------------------------------------
\* Helpers
\* ------------------------------------------------------------------------
\* truth value of an optional Decimal in a Python condition: None and 0 are falsy
Truthy(x) == x # NULL /\ x # 0

Max2(x, y) == IF x >= y THEN x ELSE y

AuctionIds == 1..Len(auctions)

\* Auction.bids: the Bid rows of table bs whose auction_id is a, in primary-key order
BidsOf(bs, a) == SelectSeq(bs, LAMBDA b : b.auction_id = a)

AuctionBids(a) == BidsOf(bids, a)

NoBid == [id |-> 0, auction_id |-> 0, bidder_id |-> NULL, amount |-> 0, created_at |-> NULL]

\* ------------------------------------------------------------------------
\* Auction model methods
\* ------------------------------------------------------------------------
\* has_ended without the deadline test
has_ended_no_deadline(auction, t) ==
    IF auction.end_time = NULL
    THEN FALSE
    ELSE \/ auction.state = "finished"
         \/ auction.instant_buy = TRUE

\* has_ended looking at the deadline only
has_ended_deadline_only(auction, t) ==
    IF auction.end_time = NULL
    THEN FALSE
    ELSE auction.end_time < t

\* Auction.has_ended: False without end_time; otherwise finished, past the
\* deadline, or instant_buy
has_ended(auction, t) ==
    IF auction.end_time = NULL
    THEN FALSE
    ELSE \/ auction.state = "finished"
         \/ auction.end_time < t
         \/ auction.instant_buy = TRUE

\* Python max(seq, key=amount): the first element carrying the maximum
RECURSIVE MaxByAmount(_, _, _)
MaxByAmount(bs, i, best) ==
    IF i > Len(bs) THEN best
    ELSE MaxByAmount(bs, i + 1, IF bs[i].amount > best.amount THEN bs[i] ELSE best)

\* get_highest_bid returning the oldest bid
get_highest_bid_first(bs) ==
    IF Len(bs) = 0 THEN NoBid ELSE bs[1]

\* Auction.get_highest_bid: None (NoBid) without bids, else max by amount
get_highest_bid(bs) ==
    IF Len(bs) = 0 THEN NoBid ELSE MaxByAmount(bs, 2, bs[1])

\* AuctionLive.model_validate(db_auction): the required, non-optional fields
AuctionLiveValid(auction) ==
    /\ auction.start_time # NULL
    /\ auction.end_time # NULL
    /\ auction.starting_price # NULL

\* ------------------------------------------------------------------------
\* Bid admission helpers
\* ------------------------------------------------------------------------
\* is_bid_too_low demanding the increment on top of the starting price for a first bid
is_bid_too_low_first_increment(bid_amount, current_highest_bid, live_auction, min_bid) ==
    \/ current_highest_bid = 0 /\ bid_amount < live_auction.starting_price + min_bid
    \/ current_highest_bid > 0 /\ bid_amount < current_highest_bid + min_bid

\* is_bid_too_low rejecting a bid that exactly meets the increment
is_bid_too_low_strict(bid_amount, current_highest_bid, live_auction, min_bid) ==
    \/ current_highest_bid = 0 /\ bid_amount < live_auction.starting_price
    \/ current_highest_bid > 0 /\ bid_amount <= current_highest_bid + min_bid

\* Case 1: below the starting price; case 2: below the minimum increment
is_bid_too_low(bid_amount, current_highest_bid, live_auction, min_bid) ==
    \/ current_highest_bid = 0 /\ bid_amount < live_auction.starting_price
    \/ current_highest_bid > 0 /\ bid_amount < current_highest_bid + min_bid

calculate_min_required_bid(live_auction, current_highest_bid, min_bid) ==
    IF current_highest_bid = 0 /\ live_auction.starting_price = 0
    THEN live_auction.starting_price + min_bid
    ELSE Max2(live_auction.starting_price, current_highest_bid + min_bid)

\* min_bid = db_auction.min_bid if db_auction.min_bid else Decimal("0.01")
EffectiveMinBid(auction) ==
    IF Truthy(auction.min_bid) THEN auction.min_bid ELSE DefaultMinBid

\* current_highest_bid = highest_bidder.amount if highest_bidder else Decimal("0")
CurrentHighestBid(a) ==
    LET highest_bidder == get_highest_bid(AuctionBids(a))
    IN IF highest_bidder # NoBid THEN highest_bidder.amount ELSE 0

\* the instant-buy condition of bid_on_auction
IsInstantBuy(auction, amount) ==
    Truthy(auction.instant_buy_price) /\ amount >= auction.instant_buy_price

\* BidOutcome with the too-low check placed before the instant-buy check
BidOutcome_too_low_first(a, amount, t) ==
    IF a \notin AuctionIds THEN "not_found"
    ELSE LET db_auction == auctions[a] IN
         IF has_ended(db_auction, t) \/ db_auction.state = "setup" THEN "cannot_bid"
         ELSE IF ~AuctionLiveValid(db_auction) THEN "validation_error"
         ELSE IF is_bid_too_low(amount, CurrentHighestBid(a), db_auction,
                                EffectiveMinBid(db_auction)) THEN "too_low"
         ELSE IF IsInstantBuy(db_auction, amount) THEN "instant_buy"
         ELSE "accepted"

\* the branch bid_on_auction takes for this auction row and amount
BidOutcome(a, amount, t) ==
    IF a \notin AuctionIds THEN "not_found"
    ELSE LET db_auction == auctions[a] IN
         IF has_ended(db_auction, t) \/ db_auction.state = "setup" THEN "cannot_bid"
         ELSE IF IsInstantBuy(db_auction, amount) THEN "instant_buy"
         ELSE IF ~AuctionLiveValid(db_auction) THEN "validation_error"
         ELSE IF is_bid_too_low(amount, CurrentHighestBid(a), db_auction,
                                EffectiveMinBid(db_auction)) THEN "too_low"
         ELSE "accepted"

\* create_bid: the Bid row built from the payload, stamped with the clock
create_bid(auction_id, current_user_id, amount, t) ==
    [id |-> Len(bids) + 1, auction_id |-> auction_id, bidder_id |-> current_user_id,
     amount |-> amount, created_at |-> t]

\* the invocations that may be under way at the same time, each with a
\* session of its own
Requests == {1, 2}

\* no invocation under way
Idle == [pc |-> "idle"]

\* ------------------------------------------------------------------------
\* Initial state: empty auction and bid tables, unsold products
\* ------------------------------------------------------------------------
Init ==
    /\ now = 0
    /\ auctions = <<>>
    /\ bids = <<>>
    /\ products = [p \in Products |-> [owner_id |-> ProductOwner(p), sold |-> FALSE]]
    /\ outbox = <<>>
    /\ last = [op |-> "init"]
    /\ inflight = [r \in Requests |-> Idle]

\* the wall clock advances
Tick ==
    /\ now < MaxTime
    /\ now' = now + 1
    /\ last' = [op |-> "tick"]
    /\ UNCHANGED <<auctions, bids, products, outbox, inflight>>

\* the Auction row create_auction inserts (created_at, written once and never
\* read by the engine, is left out)
NewAuction(owner_id, product_id, sp, mb, ibp) ==
    [owner_id |-> owner_id, product_id |-> product_id, buyer_id |-> NULL,
     state |-> "setup", start_time |-> NULL, end_time |-> NULL,
     starting_price |-> sp, min_bid |-> mb, instant_buy |-> FALSE,
     instant_buy_price |-> ibp, sold_price |-> NULL, updated_at |-> NULL]

\* POST /auctions/
create_auction(owner_id, product_id, sp, mb, ibp) ==
    /\ Len(auctions) < MaxAuctions
    /\ auctions' = Append(auctions, NewAuction(owner_id, product_id, sp, mb, ibp))
    /\ outbox' = Append(outbox, <<>>)
    /\ last' = [op |-> "create", auction |-> Len(auctions) + 1, outcome |-> "ok"]
    /\ UNCHANGED <<now, bids, products, inflight>>

\* POST /products/{product_id}/create_auction
create_auction_for_product(product_id, sp, mb, ibp) ==
    /\ Len(auctions) < MaxAuctions
    /\ IF products[product_id].sold
       THEN /\ last' = [op |-> "create_for_product", auction |-> 0, outcome |-> "sold"]
            /\ UNCHANGED <<auctions, outbox>>
       ELSE /\ auctions' = Append(auctions,
                  NewAuction(products[product_id].owner_id, product_id, sp, mb, ibp))
            /\ outbox' = Append(outbox, <<>>)
            /\ last' = [op |-> "create_for_product", auction |-> Len(auctions) + 1,
                        outcome |-> "ok"]
    /\ UNCHANGED <<now, bids, products, inflight>>

\* the state test letting a live auction be published again
CanPublish_not_finished(db_auction) == db_auction.state # "finished"

\* start_auction without its state test
CanPublish_any_state(db_auction) == TRUE

\* the state test of start_auction
CanPublish(db_auction) == db_auction.state = "setup"

\* the writes of start_auction with the duration left out of end_time
PublishedAuction_no_duration(db_auction, current_time, duration) ==
    [db_auction EXCEPT !.state = "live", !.end_time = current_time,
                       !.start_time = current_time, !.updated_at = current_time]

\* the writes of start_auction with end_time left null
PublishedAuction_no_end_time(db_auction, current_time, duration) ==
    [db_auction EXCEPT !.state = "live", !.start_time = current_time,
                       !.updated_at = current_time]

\* the writes of start_auction
PublishedAuction(db_auction, current_time, duration) ==
    [db_auction EXCEPT !.state = "live", !.end_time = current_time + duration,
                       !.start_time = current_time, !.updated_at = current_time]

\* POST /auctions/{auction_id}/publish
start_auction(auction_id, duration) ==
    /\ auction_id \in AuctionIds
    /\ IF ~CanPublish(auctions[auction_id])
       THEN /\ last' = [op |-> "publish", auction |-> auction_id, outcome |-> "error"]
            /\ UNCHANGED auctions
       ELSE /\ auctions' = [auctions EXCEPT ![auction_id] =
                                 PublishedAuction(@, now, duration)]
            /\ last' = [op |-> "publish", auction |-> auction_id, outcome |-> "ok",
                        duration |-> duration]
    /\ UNCHANGED <<now, bids, products, outbox, inflight>>

\* db.update_object: the set fields of the payload and a fresh updated_at
\* written over the row
UpdatedAuction(obj_db, obj_data, t) ==
    [f \in DOMAIN obj_db |->
        IF f = "updated_at" THEN t
        ELSE IF f \in DOMAIN obj_data THEN obj_data[f]
        ELSE obj_db[f]]

\* PATCH /auctions/{auction_id} (admin)
update_auction(auction_id, update_data) ==
    /\ auction_id \in AuctionIds
    /\ auctions' = [auctions EXCEPT ![auction_id] = UpdatedAuction(@, update_data, now)]
    /\ last' = [op |-> "update", auction |-> auction_id, outcome |-> "ok"]
    /\ UNCHANGED <<now, bids, products, outbox, inflight>>

\* the instant-buy branch's writes to the auction row
InstantBuyAuction(db_auction, new_bid) ==
    [db_auction EXCEPT !.instant_buy = TRUE, !.end_time = new_bid.created_at]

\* the instant-buy branch storing the submitted amount
InstantBuyBid_unclamped(db_auction, new_bid) == new_bid

\* the instant-buy branch's write to the stored bid: new_bid.amount = instant_buy_price
InstantBuyBid(db_auction, new_bid) ==
    [new_bid EXCEPT !.amount = db_auction.instant_buy_price]

\* what the caller of bid_on_auction gets back: the 404 and the "cannot bid"
\* detail do not carry the submitted amount, the other responses do
BidResponse(auction_id, amount, outcome) ==
    CASE outcome = "not_found" -> [op |-> "bid", outcome |-> outcome]
      [] outcome = "cannot_bid" -> [op |-> "bid", auction |-> auction_id, outcome |-> outcome]
      [] OTHER -> [op |-> "bid", auction |-> auction_id, amount |-> amount,
                   outcome |-> outcome]

\* bid_on_auction calling create_bid before the too-low check: the bid it
\* rejects as too low is stored
bid_on_auction_insert_before_check(auction_id, current_user_id, amount) ==
    LET outcome == BidOutcome(auction_id, amount, now)
        new_bid == create_bid(auction_id, current_user_id, amount, now)
    IN
    /\ outcome \in {"accepted", "instant_buy", "too_low"} => Len(bids) < MaxBids
    /\ CASE outcome = "instant_buy" ->
              LET db_auction == auctions[auction_id] IN
              /\ bids' = Append(bids, InstantBuyBid(db_auction, new_bid))
              /\ auctions' = [auctions EXCEPT ![auction_id] =
                                 InstantBuyAuction(db_auction, new_bid)]
              /\ products' = [products EXCEPT ![db_auction.product_id].sold = TRUE]
         [] outcome \in {"accepted", "too_low"} ->
              /\ bids' = Append(bids, new_bid)
              /\ UNCHANGED <<auctions, products>>
         [] OTHER ->
              UNCHANGED <<auctions, bids, products>>
    /\ last' = BidResponse(auction_id, amount, outcome)
    /\ UNCHANGED <<now, outbox, inflight>>

\* POST /auctions/{auction_id}/bid
bid_on_auction(auction_id, current_user_id, amount) ==
    LET outcome == BidOutcome(auction_id, amount, now)
        new_bid == create_bid(auction_id, current_user_id, amount, now)
    IN
    /\ outcome \in {"accepted", "instant_buy"} => Len(bids) < MaxBids
    /\ CASE outcome = "instant_buy" ->
              LET db_auction == auctions[auction_id] IN
              /\ bids' = Append(bids, InstantBuyBid(db_auction, new_bid))
              /\ auctions' = [auctions EXCEPT ![auction_id] =
                                 InstantBuyAuction(db_auction, new_bid)]
              /\ products' = [products EXCEPT ![db_auction.product_id].sold = TRUE]
         [] outcome = "accepted" ->
              /\ bids' = Append(bids, new_bid)
              /\ UNCHANGED <<auctions, products>>
         [] OTHER ->
              UNCHANGED <<auctions, bids, products>>
    /\ last' = BidResponse(auction_id, amount, outcome)
    /\ UNCHANGED <<now, outbox, inflight>>

\* ------------------------------------------------------------------------
\* Settlement
\* ------------------------------------------------------------------------
\* the winner test taking a missing bid for a winner
HasWinner_always(highest_bid) == TRUE

\* the winner test of finish_auction: highest_bid and highest_bid.amount > 0
HasWinner(highest_bid) == highest_bid # NoBid /\ highest_bid.amount > 0

\* the winner's writes with the starting price booked as sold_price
SettledAuction_starting_price(auction, highest_bid, t) ==
    [auction EXCEPT !.buyer_id = highest_bid.bidder_id,
                    !.sold_price = auction.starting_price,
                    !.updated_at = t,
                    !.state = "finished"]

\* the writes of finish_auction to the row of an auction with a winner
SettledAuction(auction, highest_bid, t) ==
    [auction EXCEPT !.buyer_id = highest_bid.bidder_id,
                    !.sold_price = highest_bid.amount,
                    !.updated_at = t,
                    !.state = "finished"]

\* finish_auction sending the notifications before its commit: an exception
\* of send_auction_email leaves the settlement uncommitted
finish_auction_mail_before_commit(st, a, mailFails) ==
    LET auction == st.sess[a]
        highest_bid == get_highest_bid(AuctionBids(a))
        buyer == auction.buyer_id
        wins == HasWinner(highest_bid)
        settled == IF wins
                   THEN SettledAuction(auction, highest_bid, now)
                   ELSE [auction EXCEPT !.state = "finished"]
        sess1 == [st.sess EXCEPT ![a] = settled]
        prods1 == IF wins THEN [st.products EXCEPT ![auction.product_id].sold = TRUE]
                  ELSE st.products
        ownerRaises == <<a, "owner">> \in mailFails
        buyerRaises == <<a, "buyer">> \in mailFails
        raises == ownerRaises \/ (buyer # NULL /\ buyerRaises)
        calls == IF buyer # NULL /\ ~ownerRaises
                 THEN <<auction.owner_id, buyer>>
                 ELSE <<auction.owner_id>>
    IN [st EXCEPT !.sess = sess1,
                  !.db = IF raises THEN @ ELSE sess1,
                  !.products = IF raises THEN @ ELSE prods1,
                  !.commits = [@ EXCEPT ![a] = IF raises THEN @ ELSE @ + 1],
                  !.outbox = [@ EXCEPT ![a] = @ \o calls],
                  !.raised = raises]

\* finish_auction on the session row of auction a.  st carries the session
\* view (sess), the committed tables (db, products), the calls made to
\* send_auction_email (outbox) and the commits issued per auction.
finish_auction(st, a, mailFails) ==
    LET auction == st.sess[a]
        highest_bid == get_highest_bid(AuctionBids(a))
        \* auction.buyer is read before buyer_id is assigned
        buyer == auction.buyer_id
        wins == HasWinner(highest_bid)
        settled == IF wins
                   THEN SettledAuction(auction, highest_bid, now)
                   ELSE [auction EXCEPT !.state = "finished"]
        sess1 == [st.sess EXCEPT ![a] = settled]
        prods1 == IF wins THEN [st.products EXCEPT ![auction.product_id].sold = TRUE]
                  ELSE st.products
        ownerRaises == <<a, "owner">> \in mailFails
        buyerRaises == <<a, "buyer">> \in mailFails
        calls == IF buyer # NULL /\ ~ownerRaises
                 THEN <<auction.owner_id, buyer>>
                 ELSE <<auction.owner_id>>
    IN [st EXCEPT !.sess = sess1,
                  !.db = sess1,
                  !.products = prods1,
                  !.commits = [@ EXCEPT ![a] = @ + 1],
                  !.outbox = [@ EXCEPT ![a] = @ \o calls],
                  !.raised = ownerRaises \/ (buyer # NULL /\ buyerRaises)]

\* the settlement test that looks at the deadline only
ShouldFinish_deadline_only(auction, current_time) ==
    auction.end_time < current_time

\* the settlement test settling an auction at the instant of its end_time
ShouldFinish_inclusive(auction, current_time) ==
    auction.end_time <= current_time \/ auction.instant_buy

\* the settlement test of the sweep: auction.end_time < current_time or auction.instant_buy
ShouldFinish(auction, current_time) ==
    auction.end_time < current_time \/ auction.instant_buy

\* ORDER BY end_time DESC (null end_time sorts first): row a may stand before row b
SortsNoLater(a, b) ==
    \/ auctions[a].end_time = NULL
    \/ auctions[b].end_time # NULL /\ auctions[a].end_time >= auctions[b].end_time

\* the orders in which rows with the same end_time may be returned
TiedOrders(G) ==
    {o \in [1..Cardinality(G) -> G] :
        \A i \in 1..Cardinality(G), j \in 1..Cardinality(G) : o[i] = o[j] => i = j}

\* the live-auction query's ORDER BY: the rows S sorted by end_time descending
SortedRows(S) ==
    SortSeq(SelectSeq([a \in 1..Len(auctions) |-> a], LAMBDA a : a \in S),
            LAMBDA a, b : ~SortsNoLater(b, a))

\* the orders in which the rows S may be returned: the orders that differ from
\* the sorted rows in the places of rows with the same end_time only
\* (InRange[lo, hi] are those of the rows lo..hi, put together around the
\* middle row and the rows tied with it)
OrdersOf(S) ==
    UNION {LET InRange[lo \in 1..(Len(s) + 1), hi \in 0..Len(s)] ==
                   IF lo > hi THEN {<<>>}
                   ELSE LET middle == s[(lo + hi) \div 2]
                            tied == {i \in lo..hi : /\ SortsNoLater(s[i], middle)
                                                    /\ SortsNoLater(middle, s[i])}
                            first == CHOOSE i \in tied : \A j \in tied : i <= j
                        IN {x \o t \o y : x \in InRange[lo, first - 1],
                                           t \in TiedOrders({s[i] : i \in tied}),
                                           y \in InRange[first + Cardinality(tied), hi]}
           IN InRange[1, Len(s)] : s \in {SortedRows(S)}}

\* the state filter matching every auction that was ever published
LiveIds_any_state == {a \in AuctionIds : auctions[a].state # "setup"}

\* search_term=State.live on the state column
LiveIds == {a \in AuctionIds : auctions[a].state = "live"}

\* the row orders the live-auction query may return
LiveOrders == OrdersOf(LiveIds)

\* db.read_objects(..., limit=100): the first QueryLimit rows of the ordered result
read_objects(order) ==
    SubSeq(order, 1, IF Len(order) < QueryLimit THEN Len(order) ELSE QueryLimit)

\* the self-heal branch leaving the row as it is
SelfHeal_keeps_state(auction) == auction

\* the self-heal branch: auction.state = State.setup on the session's row
SelfHeal(auction) == [auction EXCEPT !.state = "setup"]

\* the loop body of process_finished_auctions for the row a
SweepRow(st, a, mailFails) ==
    LET auction == st.sess[a]
    IN IF auction.end_time = NULL
       THEN [st EXCEPT !.sess = [@ EXCEPT ![a] = SelfHeal(@)]]
       ELSE IF ShouldFinish(auction, now)
       THEN LET st1 == finish_auction(st, a, mailFails)
            IN IF st1.raised THEN st1
               ELSE [st1 EXCEPT !.finished = Append(@, a)]
       ELSE st

\* the loop of process_finished_auctions over the rows lo..hi, in order: the
\* second half of the rows runs on the state the first half has left;
\* nothing runs after an exception has left the loop
RECURSIVE SweepLoop(_, _, _, _, _)
SweepLoop(rows, lo, hi, st, mailFails) ==
    IF lo > hi \/ st.raised THEN st
    ELSE IF lo = hi THEN SweepRow(st, rows[lo], mailFails)
    ELSE CHOOSE st2 \in {SweepLoop(rows, ((lo + hi) \div 2) + 1, hi, st1, mailFails) :
                            st1 \in {SweepLoop(rows, lo, (lo + hi) \div 2, st, mailFails)}} :
             TRUE

\* process_finished_auctions run inside process_finished_auctions_with_session:
\* the result of one sweep over the rows the query returned
process_finished_auctions(order, mailFails) ==
    SweepLoop(read_objects(order), 1, Len(read_objects(order)),
              [sess |-> auctions, db |-> auctions, products |-> products,
               outbox |-> outbox, finished |-> <<>>,
               commits |-> [a \in AuctionIds |-> 0], raised |-> FALSE],
              mailFails)

\* the sweep letting the query helper's not-found error escape
SweepOutcome_query_error_escapes(rows, st) ==
    IF Len(rows) = 0 \/ st.raised THEN "raised" ELSE "returned"

\* how the job ends: read_objects raised on the empty result and the error was
\* swallowed (no_live), an exception left finish_auction (raised), or the
\* list of finished ids was returned
SweepOutcome(rows, st) ==
    IF Len(rows) = 0 THEN "no_live"
    ELSE IF st.raised THEN "raised" ELSE "returned"

\* the rows whose state the job's session holds as setup when the job ends
SessionResets(st) ==
    {a \in AuctionIds : auctions[a].state = "live" /\ st.sess[a].state = "setup"}

\* what an observer of one job run sees
SweepResponse(order, st) ==
    [op |-> "sweep", outcome |-> SweepOutcome(read_objects(order), st),
     finished |-> st.finished, commits |-> st.commits, reset |-> SessionResets(st)]

\* one run of the scheduled job with the notifications in mailFails failing;
\* the session is closed without a commit
RunSweep(mailFails) ==
    \E order \in LiveOrders :
        \E st \in {process_finished_auctions(order, mailFails)} :
        /\ auctions' = st.db
        /\ products' = st.products
        /\ outbox' = st.outbox
        /\ last' = SweepResponse(order, st)
        /\ UNCHANGED <<now, bids, inflight>>

\* one run of the scheduled job with a working mail transport
Sweep == RunSweep({})

Next ==
    \/ Tick
    \/ \E p \in Products, sp \in ListedStartingPrices, mb \in ListedMinBids,
          ibp \in ListedInstantBuyPrices : create_auction(ProductOwner(p), p, sp, mb, ibp)
    \/ \E p \in Products, sp \in ListedStartingPrices, mb \in ListedMinBids,
          ibp \in ListedInstantBuyPrices : create_auction_for_product(p, sp, mb, ibp)
    \/ \E a \in 1..MaxAuctions, d \in Durations : start_auction(a, d)
    \/ \E a \in 1..MaxAuctions, u \in Users, amt \in Amounts : bid_on_auction(a, u, amt)
    \/ Sweep

\* several auctions side by side, created from the price list
Spec == Init /\ [][Next]_vars

\* a single auction with any product and price combination
NextBidding ==
    \/ Tick
    \/ \E p \in Products, sp \in StartingPrices, mb \in MinBids,
          ibp \in InstantBuyPrices :
          auctions = <<>> /\ create_auction(ProductOwner(p), p, sp, mb, ibp)
    \/ \E a \in 1..MaxAuctions, d \in Durations : start_auction(a, d)
    \/ \E a \in 1..MaxAuctions, u \in Users, amt \in Amounts : bid_on_auction(a, u, amt)
    \/ Sweep

SpecBidding == Init /\ [][NextBidding]_vars

\* one auction per product, without instant-buy price, and an admin who
\* patches the first auction while it is not finished
NextAdmin ==
    \/ Tick
    \/ \E sp \in ListedStartingPrices, mb \in ListedMinBids :
          /\ Len(auctions) < Cardinality(Products)
          /\ create_auction(ProductOwner(Len(auctions) + 1), Len(auctions) + 1, sp, mb, NULL)
    \/ \E a \in 1..MaxAuctions, d \in Durations : start_auction(a, d)
    \/ \E a \in 1..MaxAuctions, u \in Users, amt \in Amounts : bid_on_auction(a, u, amt)
    \/ \E update_data \in AdminUpdates :
          /\ Len(auctions) >= 1
          /\ auctions[1].state # "finished"
          /\ update_auction(1, update_data)
    \/ Sweep

SpecAdmin == Init /\ [][NextAdmin]_vars

\* one auction per product, without instant-buy price, and a mail transport
\* that may fail
NextMail ==
    \/ Tick
    \/ \E sp \in ListedStartingPrices, mb \in ListedMinBids :
          /\ Len(auctions) < Cardinality(Products)
          /\ create_auction(ProductOwner(Len(auctions) + 1), Len(auctions) + 1, sp, mb, NULL)
    \/ \E a \in 1..MaxAuctions, d \in Durations : start_auction(a, d)
    \/ \E a \in 1..MaxAuctions, u \in Users, amt \in Amounts : bid_on_auction(a, u, amt)
    \/ \E mailFails \in FailingMails : RunSweep(mailFails)

SpecMail == Init /\ [][NextMail]_vars

\* a run of the job while a live auction is past its deadline
DueSweep ==
    /\ \E a \in AuctionIds :
          /\ auctions[a].state = "live"
          /\ auctions[a].end_time # NULL
          /\ auctions[a].end_time < now
    /\ \E mailFails \in FailingMails : RunSweep(mailFails)

\* the clock keeps advancing and the interval trigger keeps running the job
\* (only the runs that find an ended auction are needed)
SpecMailFair ==
    /\ SpecMail
    /\ WF_vars(Tick)
    /\ WF_vars(DueSweep)

\* a busy marketplace: auction 1 in setup on product 1 and, after it,
\* QueryLimit auctions on product 2 that were published at time 0 with
\* durations beyond the horizon of the clock, each ending later than the next
BacklogAuctions ==
    [i \in 1..(QueryLimit + 1) |->
        IF i = 1
        THEN NewAuction(ProductOwner(1), 1, 1, 2, NULL)
        ELSE PublishedAuction(NewAuction(ProductOwner(2), 2, 1, 2, NULL), 0,
                              MaxTime + QueryLimit + 2 - i)]

InitBacklog ==
    /\ now = 0
    /\ auctions = BacklogAuctions
    /\ bids = <<>>
    /\ products = [p \in Products |-> [owner_id |-> ProductOwner(p), sold |-> FALSE]]
    /\ outbox = [i \in 1..(QueryLimit + 1) |-> <<>>]
    /\ last = [op |-> "init"]
    /\ inflight = [r \in Requests |-> Idle]

\* publish of and bids on auction 1 while the other auctions stay live
NextBacklog ==
    \/ Tick
    \/ \E d \in Durations : start_auction(1, d)
    \/ \E u \in Users, amt \in Amounts : bid_on_auction(1, u, amt)
    \/ \E mailFails \in FailingMails : RunSweep(mailFails)

SpecBacklog == InitBacklog /\ [][NextBacklog]_vars

SpecBacklogFair ==
    /\ SpecBacklog
    /\ WF_vars(Tick)
    /\ WF_vars(DueSweep)

\* ------------------------------------------------------------------------
\* Invocations that overlap: each runs on a session of its own and takes
\* effect on the database where it commits
\* ------------------------------------------------------------------------
\* session.commit() of a session that loaded the rows as loaded and holds
\* them as sess: the rows the session changed are written, the others stay
\* as the database has them
CommittedRows(loaded, sess) ==
    [x \in DOMAIN auctions |->
        IF x \in DOMAIN loaded /\ sess[x] # loaded[x] THEN sess[x] ELSE auctions[x]]

\* job j starts: process_finished_auctions queries the live auctions into the
\* job's session (and returns at once when there is none)
SweepRead(j) ==
    /\ inflight[j] = Idle
    /\ \E order \in LiveOrders :
          /\ inflight' = [inflight EXCEPT ![j] =
                 IF Len(order) = 0 THEN Idle
                 ELSE [pc |-> "loop", rows |-> read_objects(order), i |-> 1,
                       loaded |-> auctions, sess |-> auctions, finished |-> <<>>]]
          /\ last' = [op |-> "sweep_read", job |-> j, rows |-> read_objects(order)]
    /\ UNCHANGED <<now, auctions, bids, products, outbox>>

\* what job j's pass of the loop body for its next row leaves, run on the job's
\* session with the working mail transport
SweepRowOf(j) ==
    SweepRow([sess |-> inflight[j].sess, db |-> auctions, products |-> products,
              outbox |-> outbox, finished |-> inflight[j].finished,
              commits |-> [a \in AuctionIds |-> 0], raised |-> FALSE],
             inflight[j].rows[inflight[j].i], {})

\* job j runs the loop body for its next row; a commit writes the session's
\* changes and expires the session's rows, which are loaded again on the next
\* access; after the last row the job returns and its session is closed
SweepStep(j) ==
    /\ inflight[j].pc = "loop"
    /\ \E a \in {inflight[j].rows[inflight[j].i]}, st \in {SweepRowOf(j)} :
          \E db1 \in {IF st.commits[a] > 0
                       THEN CommittedRows(inflight[j].loaded, st.sess)
                       ELSE auctions} :
          /\ auctions' = db1
          /\ products' = st.products
          /\ outbox' = st.outbox
          /\ inflight' = [inflight EXCEPT ![j] =
                 IF inflight[j].i = Len(inflight[j].rows) THEN Idle
                 ELSE [@ EXCEPT !.i = @ + 1,
                                !.sess = IF st.commits[a] > 0 THEN db1 ELSE st.sess,
                                !.loaded = IF st.commits[a] > 0 THEN db1 ELSE @,
                                !.finished = st.finished]]
          /\ last' = [op |-> "sweep_row", job |-> j, auction |-> a,
                      committed |-> st.commits[a] > 0, finished |-> st.finished]
    /\ UNCHANGED <<now, bids>>

\* one auction per product, without instant-buy price, bids on the first
\* auction, and two runs of the job that may overlap
NextOverlap ==
    \/ Tick
    \/ \E sp \in ListedStartingPrices, mb \in ListedMinBids :
          /\ Len(auctions) < Cardinality(Products)
          /\ create_auction(ProductOwner(Len(auctions) + 1), Len(auctions) + 1, sp, mb, NULL)
    \/ \E a \in 1..MaxAuctions, d \in Durations : start_auction(a, d)
    \/ \E u \in Users, amt \in Amounts : bid_on_auction(1, u, amt)
    \/ \E j \in Requests : SweepRead(j)
    \/ \E j \in Requests : SweepStep(j)

SpecOverlap == Init /\ [][NextOverlap]_vars

\* bid request r runs bid_on_auction up to its decision: the auction row and
\* the highest bid are read and the checks are made.  A rejected request is
\* answered at once; an admitted one holds what it has read (seen: the
\* highest bid it was checked against) until it commits
BidRead(r, auction_id, current_user_id, amount) ==
    /\ inflight[r] = Idle
    /\ \E outcome \in {BidOutcome(auction_id, amount, now)} :
          IF outcome \in {"accepted", "instant_buy"}
          THEN /\ Len(bids) < MaxBids
               /\ inflight' = [inflight EXCEPT ![r] =
                      [pc |-> "bid", auction |-> auction_id, bidder |-> current_user_id,
                       amount |-> amount, outcome |-> outcome, checked_at |-> now,
                       seen |-> CurrentHighestBid(auction_id), raced |-> FALSE]]
               /\ last' = [op |-> "bid_read", request |-> r, auction |-> auction_id,
                           amount |-> amount, outcome |-> outcome]
          ELSE /\ last' = BidResponse(auction_id, amount, outcome)
               /\ UNCHANGED inflight
    /\ UNCHANGED <<now, auctions, bids, products, outbox>>

\* the requests in flight after request r has committed: r is done, and a
\* request that was checked against the same highest bid of the same auction
\* is marked (raced) for the observer
AfterCommit(r) ==
    [x \in Requests |->
        IF x = r THEN Idle
        ELSE IF /\ inflight[x].pc = "bid"
                /\ inflight[x].auction = inflight[r].auction
                /\ inflight[x].seen = inflight[r].seen
        THEN [inflight[x] EXCEPT !.raced = TRUE]
        ELSE inflight[x]]

\* bid request r commits what it decided: create_bid inserts the bid, stamped
\* with the clock as create_bid read it at some time since the checks, and the
\* instant-buy branch writes the clamped amount, instant_buy, end_time and
\* product.sold
BidCommit(r) ==
    /\ inflight[r].pc = "bid"
    /\ Len(bids) < MaxBids
    /\ \E req \in {inflight[r]} :
          \E new_bid \in {create_bid(req.auction, req.bidder, req.amount, t) :
                             t \in req.checked_at..now} :
          /\ IF req.outcome = "instant_buy"
             THEN /\ bids' = Append(bids, InstantBuyBid(auctions[req.auction], new_bid))
                  /\ auctions' = [auctions EXCEPT ![req.auction] =
                                     InstantBuyAuction(@, new_bid)]
                  /\ products' = [products EXCEPT
                                     ![auctions[req.auction].product_id].sold = TRUE]
             ELSE /\ bids' = Append(bids, new_bid)
                  /\ UNCHANGED <<auctions, products>>
          /\ inflight' = AfterCommit(r)
          /\ last' = [op |-> "bid_commit", request |-> r, auction |-> req.auction,
                      amount |-> req.amount, outcome |-> req.outcome,
                      seen |-> req.seen, raced |-> req.raced]
    /\ UNCHANGED <<now, outbox>>

\* a single auction from the price list and two bid requests that may
\* interleave
NextRace ==
    \/ Tick
    \/ \E p \in Products, sp \in ListedStartingPrices, mb \in ListedMinBids,
          ibp \in ListedInstantBuyPrices :
          auctions = <<>> /\ create_auction(ProductOwner(p), p, sp, mb, ibp)
    \/ \E a \in 1..MaxAuctions, d \in Durations : start_auction(a, d)
    \/ \E r \in Requests, a \in 1..MaxAuctions, u \in Users, amt \in Amounts :
          BidRead(r, a, u, amt)
    \/ \E r \in Requests : BidCommit(r)

SpecRace == Init /\ [][NextRace]_vars

\* a single auction from the price list, bid requests that may interleave,
\* and the job running between the checks and the commit of a request
NextSettleRace ==
    \/ Tick
    \/ \E p \in Products, sp \in ListedStartingPrices, mb \in ListedMinBids,
          ibp \in ListedInstantBuyPrices :
          auctions = <<>> /\ create_auction(ProductOwner(p), p, sp, mb, ibp)
    \/ \E a \in 1..MaxAuctions, d \in Durations : start_auction(a, d)
    \/ \E r \in Requests, a \in 1..MaxAuctions, u \in Users, amt \in Amounts :
          BidRead(r, a, u, amt)
    \/ \E r \in Requests : BidCommit(r)
    \/ Sweep

SpecSettleRace == Init /\ [][NextSettleRace]_vars

\* ------------------------------------------------------------------------
\* The two commits of the instant-buy branch
\* ------------------------------------------------------------------------
\* bid request r runs create_bid: the bid is inserted with the submitted
\* amount and committed.  An accepted bid is answered; the instant-buy branch
\* goes on with the bid it got back
BidInsert(r) ==
    /\ inflight[r].pc = "bid"
    /\ Len(bids) < MaxBids
    /\ \E req \in {inflight[r]} :
          \E new_bid \in {create_bid(req.auction, req.bidder, req.amount, t) :
                             t \in req.checked_at..now} :
          /\ bids' = Append(bids, new_bid)
          /\ inflight' = [inflight EXCEPT ![r] =
                 IF req.outcome = "instant_buy"
                 THEN [pc |-> "clamp", auction |-> req.auction, bid |-> new_bid.id]
                 ELSE Idle]
          /\ last' = [op |-> "bid_insert", request |-> r, auction |-> req.auction,
                      amount |-> req.amount, outcome |-> req.outcome]
    /\ UNCHANGED <<now, auctions, products, outbox>>

\* bid request r ends the instant-buy branch: the amount of its bid is set to
\* instant_buy_price, instant_buy, product.sold and end_time are written, and
\* the second commit stores them
BidClamp(r) ==
    /\ inflight[r].pc = "clamp"
    /\ \E req \in {inflight[r]} :
          /\ bids' = [bids EXCEPT ![req.bid] = InstantBuyBid(auctions[req.auction], @)]
          /\ auctions' = [auctions EXCEPT ![req.auction] =
                             InstantBuyAuction(@, bids[req.bid])]
          /\ products' = [products EXCEPT
                             ![auctions[req.auction].product_id].sold = TRUE]
          /\ inflight' = [inflight EXCEPT ![r] = Idle]
          /\ last' = [op |-> "bid_clamp", request |-> r, auction |-> req.auction,
                      amount |-> auctions[req.auction].instant_buy_price,
                      outcome |-> "instant_buy"]
    /\ UNCHANGED <<now, outbox>>

\* a single auction from the price list and bid requests whose commits other
\* requests may fall between
NextTwoCommits ==
    \/ Tick
    \/ \E p \in Products, sp \in ListedStartingPrices, mb \in ListedMinBids,
          ibp \in ListedInstantBuyPrices :
          auctions = <<>> /\ create_auction(ProductOwner(p), p, sp, mb, ibp)
    \/ \E a \in 1..MaxAuctions, d \in Durations : start_auction(a, d)
    \/ \E r \in Requests, a \in 1..MaxAuctions, u \in Users, amt \in Amounts :
          BidRead(r, a, u, amt)
    \/ \E r \in Requests : BidInsert(r)
    \/ \E r \in Requests : BidClamp(r)

SpecTwoCommits == Init /\ [][NextTwoCommits]_vars

\* ------------------------------------------------------------------------
\* Rows as the admin's PATCH can leave them
\* ------------------------------------------------------------------------
\* State
States == {"setup", "live", "finished"}

\* an auction row after PATCH /auctions/{auction_id} requests that set state,
\* start_time and end_time (AuctionUpdate leaves each of them free), before
\* or after an instant-buy bid
PatchedAuctions ==
    {[NewAuction(ProductOwner(1), 1, 1, 2, 2) EXCEPT
          !.state = s, !.start_time = st, !.end_time = e, !.instant_buy = ib] :
        s \in States, st \in {NULL, 0}, e \in {NULL} \cup (0..MaxTime), ib \in BOOLEAN}

InitPatched ==
    /\ now \in 0..MaxTime
    /\ auctions \in {<<row>> : row \in PatchedAuctions}
    /\ bids = <<>>
    /\ products = [p \in Products |-> [owner_id |-> ProductOwner(p), sold |-> FALSE]]
    /\ outbox = <<<<>>>>
    /\ last = [op |-> "init"]
    /\ inflight = [r \in Requests |-> Idle]

\* bids on a patched auction
NextPatched ==
    \/ Tick
    \/ \E u \in Users, amt \in Amounts : bid_on_auction(1, u, amt)

SpecPatched == InitPatched /\ [][NextPatched]_vars

\* ------------------------------------------------------------------------
\* One published auction of every starting price and increment
\* ------------------------------------------------------------------------
\* an auction created without instant-buy price, with any starting price and
\* any min_bid the payload admits, and published at time 0
QuotedAuctions ==
    {PublishedAuction(NewAuction(ProductOwner(1), 1, sp, mb, NULL), 0, d) :
        sp \in 0..MaxAmount, mb \in {NULL} \cup (1..MaxAmount), d \in 1..MaxDuration}

InitQuoted ==
    /\ now = 0
    /\ auctions \in {<<row>> : row \in QuotedAuctions}
    /\ bids = <<>>
    /\ products = [p \in Products |-> [owner_id |-> ProductOwner(p), sold |-> FALSE]]
    /\ outbox = <<<<>>>>
    /\ last = [op |-> "init"]
    /\ inflight = [r \in Requests |-> Idle]

\* bids on the published auction
NextQuoted ==
    \/ Tick
    \/ \E u \in Users, amt \in Amounts : bid_on_auction(1, u, amt)

SpecQuoted == InitQuoted /\ [][NextQuoted]_vars

\* ------------------------------------------------------------------------
\* Vocabulary of the properties
\* ------------------------------------------------------------------------
\* an optional price is set when it is neither null nor zero (the handlers
\* test prices by their truth value)
IsSet(x) == x # NULL /\ x # 0

\* live and not ended: the deadline has not passed and no instant buy happened
Biddable(a) ==
    /\ auctions[a].state = "live"
    /\ auctions[a].end_time # NULL
    /\ auctions[a].end_time >= now
    /\ auctions[a].instant_buy = FALSE

\* the amount reaches the auction's instant-buy threshold
ReachesInstantBuy(a, amt) ==
    IsSet(auctions[a].instant_buy_price) /\ amt >= auctions[a].instant_buy_price

\* the largest amount among the bids of auction a, 0 without bids
HighestAmount(a) ==
    LET bs == AuctionBids(a) IN
    IF bs = <<>> THEN 0
    ELSE CHOOSE m \in {bs[i].amount : i \in DOMAIN bs} :
             \A i \in DOMAIN bs : bs[i].amount <= m

\* the configured increment, or one cent when unset
Increment(a) == IF IsSet(auctions[a].min_bid) THEN auctions[a].min_bid ELSE 1

\* this step is a bid request on auction a
BidOn(a) == last'.op = "bid" /\ last'.outcome # "not_found" /\ last'.auction = a

\* this step appends exactly one bid, on auction a with amount amt
AppendsBid(a, amt) ==
    /\ Len(bids') = Len(bids) + 1
    /\ SubSeq(bids', 1, Len(bids)) = bids
    /\ bids'[Len(bids')].auction_id = a
    /\ bids'[Len(bids')].amount = amt

\* ------------------------------------------------------------------------
\* Bid admission
\* ------------------------------------------------------------------------
\* C1: on a live, not-ended auction without bids, a bid below the instant-buy
\* threshold is rejected when amount < starting_price and appended, with that
\* amount, when amount >= starting_price; min_bid plays no part.
C1_FirstBidAgainstStartingPrice ==
    [][\A a \in AuctionIds :
          (/\ BidOn(a)
           /\ Biddable(a)
           /\ auctions[a].starting_price # NULL
           /\ AuctionBids(a) = <<>>)
          => /\ last'.outcome # "cannot_bid"
             /\ ~ReachesInstantBuy(a, last'.amount)
                => IF last'.amount < auctions[a].starting_price
                   THEN last'.outcome = "too_low" /\ bids' = bids
                   ELSE last'.outcome = "accepted" /\ AppendsBid(a, last'.amount)
      ]_vars

\* a first bid was accepted at the starting price although it is below
\* starting_price + min_bid
C1_Witness ==
    /\ last.op = "bid"
    /\ last.outcome = "accepted"
    /\ Len(AuctionBids(last.auction)) = 1
    /\ auctions[last.auction].min_bid = 2
    /\ last.amount >= auctions[last.auction].starting_price
    /\ last.amount < auctions[last.auction].starting_price + 2

\* C2: with a highest bid H > 0 on a live, not-ended auction, a bid below the
\* instant-buy threshold is rejected when amount < H + min_bid (amount = H
\* included) and accepted when amount = H + min_bid; min_bid is 0.01 when unset.
C2_IncrementRule ==
    [][\A a \in AuctionIds :
          (BidOn(a) /\ Biddable(a) /\ HighestAmount(a) > 0)
          => /\ last'.outcome # "cannot_bid"
             /\ ~ReachesInstantBuy(a, last'.amount)
                => /\ last'.amount < HighestAmount(a) + Increment(a)
                      => last'.outcome = "too_low" /\ bids' = bids
                   /\ last'.amount = HighestAmount(a) + Increment(a)
                      => last'.outcome = "accepted" /\ AppendsBid(a, last'.amount)
      ]_vars

\* a second bid was accepted at exactly the previous highest bid plus min_bid
C2_Witness ==
    /\ last.op = "bid"
    /\ last.outcome = "accepted"
    /\ LET bs == AuctionBids(last.auction) IN
       /\ Len(bs) >= 2
       /\ bs[Len(bs)].amount = bs[Len(bs) - 1].amount + Increment(last.auction)
       /\ auctions[last.auction].min_bid = 2

C5_WitnessBelowStart ==
    /\ last.op = "bid"
    /\ last.outcome = "instant_buy"
    /\ auctions[last.auction].starting_price # NULL
    /\ last.amount < auctions[last.auction].starting_price

\* ------------------------------------------------------------------------
\* Publish
\* ------------------------------------------------------------------------
\* C6: start_auction succeeds only on an auction in setup; on a live or
\* finished auction it raises and leaves state, start_time, end_time and
\* updated_at as they were.
C6_PublishOnlyFromSetup ==
    [][\A a \in AuctionIds :
          (last'.op = "publish" /\ last'.auction = a)
          => IF auctions[a].state = "setup"
             THEN last'.outcome = "ok" /\ auctions'[a].state = "live"
             ELSE /\ last'.outcome = "error"
                  /\ auctions'[a].state = auctions[a].state
                  /\ auctions'[a].start_time = auctions[a].start_time
                  /\ auctions'[a].end_time = auctions[a].end_time
                  /\ auctions'[a].updated_at = auctions[a].updated_at
      ]_vars

\* publish was refused on a finished auction
C6_Witness ==
    /\ last.op = "publish"
    /\ last.outcome = "error"
    /\ auctions[last.auction].state = "finished"

\* C7: after a successful start_auction with duration d at time t the auction
\* is live with start_time = t, end_time = t + d and updated_at = t, and no
\* other auction and no bid is changed.
C7_PublishStamps ==
    [][(last'.op = "publish" /\ last'.outcome = "ok")
       => LET a == last'.auction IN
          /\ auctions'[a].state = "live"
          /\ auctions'[a].start_time = now
          /\ auctions'[a].end_time = now + last'.duration
          /\ auctions'[a].updated_at = now
          /\ Len(auctions') = Len(auctions)
          /\ \A o \in AuctionIds \ {a} : auctions'[o] = auctions[o]
          /\ bids' = bids
      ]_vars

\* an auction was published with a non-zero duration next to another auction
\* that already holds a bid
C7_Witness ==
    /\ last.op = "publish"
    /\ last.outcome = "ok"
    /\ last.duration = 1
    /\ auctions[last.auction].end_time = auctions[last.auction].start_time + 1
    /\ \E b \in DOMAIN bids : bids[b].auction_id # last.auction

\* ------------------------------------------------------------------------
\* Settlement
\* ------------------------------------------------------------------------
\* auction a goes from live to finished in this step
Settles(a) == auctions[a].state = "live" /\ auctions'[a].state = "finished"

\* C8: when finish_auction settles a live auction that has at least one bid,
\* the auction is finished, buyer_id is the bidder of the highest bid,
\* sold_price is that bid's amount, the linked product is sold and the
\* change is committed exactly once.
C8_SettleToHighestBidder ==
    [][\A a \in AuctionIds :
          (Settles(a) /\ AuctionBids(a) # <<>>)
          => /\ last'.op = "sweep"
             /\ \E i \in DOMAIN AuctionBids(a) :
                   /\ AuctionBids(a)[i].amount = HighestAmount(a)
                   /\ auctions'[a].buyer_id = AuctionBids(a)[i].bidder_id
             /\ auctions'[a].sold_price = HighestAmount(a)
             /\ products'[auctions[a].product_id].sold = TRUE
             /\ last'.commits[a] = 1
      ]_vars

\* a sweep settled an auction with two bids of different bidders to the
\* bidder of the second, higher bid
C8_Witness ==
    /\ last.op = "sweep"
    /\ \E a \in AuctionIds :
          LET bs == AuctionBids(a) IN
          /\ last.commits[a] = 1
          /\ auctions[a].state = "finished"
          /\ Len(bs) = 2
          /\ bs[1].bidder_id # bs[2].bidder_id
          /\ bs[2].amount > bs[1].amount
          /\ auctions[a].buyer_id = bs[2].bidder_id
          /\ auctions[a].sold_price = bs[2].amount

\* C9: a sweep that runs after the end_time of a published auction without
\* bids finishes it with buyer_id and sold_price still null, does not set the
\* product's sold flag, and sends exactly one notification, to the owner.
C9_NoBidExpiry ==
    [][\A a \in AuctionIds :
          (/\ last'.op = "sweep"
           /\ auctions[a].state = "live"
           /\ auctions[a].end_time # NULL
           /\ auctions[a].end_time < now
           /\ AuctionBids(a) = <<>>)
          => /\ auctions'[a].state = "finished"
             /\ auctions'[a].buyer_id = NULL
             /\ auctions'[a].sold_price = NULL
             /\ \/ products'[auctions[a].product_id].sold
                      = products[auctions[a].product_id].sold
                \/ \E o \in AuctionIds \ {a} :
                      /\ auctions[o].product_id = auctions[a].product_id
                      /\ Settles(o)
                      /\ auctions'[o].buyer_id # NULL
             /\ outbox[a] = <<>>
             /\ outbox'[a] = <<auctions[a].owner_id>>
      ]_vars

\* a sweep finished an expired auction without bids: unsold product, one
\* notification, to the owner
C9_Witness ==
    /\ last.op = "sweep"
    /\ \E a \in AuctionIds :
          /\ last.commits[a] = 1
          /\ auctions[a].state = "finished"
          /\ AuctionBids(a) = <<>>
          /\ auctions[a].buyer_id = NULL
          /\ auctions[a].sold_price = NULL
          /\ products[auctions[a].product_id].sold = FALSE
          /\ outbox[a] = <<auctions[a].owner_id>>

\* the number of times x occurs in sequence s
Occurrences(s, x) == Cardinality({i \in DOMAIN s : s[i] = x})

\* C11: when process_finished_auctions runs twice in immediate succession, the
\* second run does not settle an auction the first one settled: no commit and
\* no place in the returned list for it, no further notification, and its
\* row (buyer_id and sold_price included) is unchanged.
C11_SecondSweepSettlesNothingAgain ==
    [][(last.op = "sweep" /\ last'.op = "sweep")
       => \A a \in AuctionIds :
             last.commits[a] > 0
             => /\ last'.commits[a] = 0
                /\ Occurrences(last'.finished, a) = 0
                /\ outbox'[a] = outbox[a]
                /\ auctions'[a] = auctions[a]
      ]_vars

\* a sweep found no live auction although an auction with a winning bid had
\* ended: it was settled before and holds the one notification of that run
C11_Witness ==
    /\ last.op = "sweep"
    /\ last.outcome = "no_live"
    /\ \E a \in AuctionIds :
          /\ auctions[a].state = "finished"
          /\ auctions[a].buyer_id # NULL
          /\ auctions[a].sold_price # NULL
          /\ outbox[a] = <<auctions[a].owner_id>>

\* C12: a sweep settles, and returns once, every live auction with end_time
\* set and end_time < now or instant_buy true (also when end_time is not yet
\* past); a live auction with end_time >= now and instant_buy false keeps its
\* row, gets no notification and is not returned; nothing else is returned.
C12_SweepSettlesExactlyEnded ==
    [][last'.op = "sweep"
       => /\ \A a \in AuctionIds :
                (auctions[a].state = "live" /\ auctions[a].end_time # NULL)
                => IF auctions[a].end_time < now \/ auctions[a].instant_buy
                   THEN /\ auctions'[a].state = "finished"
                        /\ Occurrences(last'.finished, a) = 1
                   ELSE /\ auctions'[a] = auctions[a]
                        /\ outbox'[a] = outbox[a]
                        /\ Occurrences(last'.finished, a) = 0
          /\ \A i \in DOMAIN last'.finished :
                LET a == last'.finished[i] IN
                /\ auctions[a].state = "live"
                /\ auctions[a].end_time # NULL
                /\ auctions[a].end_time < now \/ auctions[a].instant_buy
      ]_vars

\* a sweep settled an instant-buy auction whose end_time had not passed and
\* left alone another live auction that had not ended
C12_Witness ==
    /\ last.op = "sweep"
    /\ \E a, o \in AuctionIds :
          /\ Occurrences(last.finished, a) = 1
          /\ auctions[a].state = "finished"
          /\ auctions[a].instant_buy
          /\ auctions[a].end_time >= now
          /\ auctions[o].state = "live"
          /\ auctions[o].end_time >= now
          /\ Occurrences(last.finished, o) = 0

\* C13: a sweep that meets a live auction with null end_time sets the state of
\* its session row to setup, does not settle it (buyer_id and sold_price
\* unchanged, product not marked sold by it), sends no notification for it,
\* does not return its id, and goes on to settle the other ended auctions.
C13_SelfHealSkipsSettlement ==
    [][last'.op = "sweep"
       => \A a \in AuctionIds :
             (auctions[a].state = "live" /\ auctions[a].end_time = NULL)
             => /\ a \in last'.reset
                /\ auctions'[a].state # "finished"
                /\ auctions'[a].buyer_id = auctions[a].buyer_id
                /\ auctions'[a].sold_price = auctions[a].sold_price
                /\ \/ products'[auctions[a].product_id].sold
                         = products[auctions[a].product_id].sold
                   \/ \E o \in AuctionIds \ {a} :
                         /\ auctions[o].product_id = auctions[a].product_id
                         /\ Settles(o)
                /\ outbox'[a] = outbox[a]
                /\ Occurrences(last'.finished, a) = 0
                /\ last'.commits[a] = 0
                /\ \A o \in AuctionIds :
                      (/\ auctions[o].state = "live"
                       /\ auctions[o].end_time # NULL
                       /\ auctions[o].end_time < now)
                      => auctions'[o].state = "finished" /\ Occurrences(last'.finished, o) = 1
      ]_vars

\* a sweep reset a live auction that holds a bid and has no end_time, and
\* settled another auction after it
C13_Witness ==
    /\ last.op = "sweep"
    /\ \E a \in last.reset, o \in AuctionIds :
          /\ AuctionBids(a) # <<>>
          /\ auctions[a].end_time = NULL
          /\ auctions[a].buyer_id = NULL
          /\ outbox[a] = <<>>
          /\ last.finished = <<o>>
          /\ auctions[o].state = "finished"

\* C14: with no auction in state live the query helper raises not-found and
\* process_finished_auctions returns without raising; auctions, bids, products
\* and notifications are as before.
C14_NoLiveAuctionIsNoError ==
    [][(last'.op = "sweep" /\ LiveIds = {})
       => /\ last'.outcome = "no_live"
          /\ last'.finished = <<>>
          /\ auctions' = auctions
          /\ bids' = bids
          /\ products' = products
          /\ outbox' = outbox
      ]_vars

\* a sweep ran while the only auction was already finished and notified
C14_Witness ==
    /\ last.op = "sweep"
    /\ last.outcome = "no_live"
    /\ \E a \in AuctionIds : auctions[a].state = "finished" /\ outbox[a] # <<>>

\* C15: when a notification fails during a sweep, every other live auction
\* whose end_time has passed is still settled by that sweep.
C15_MailFailureDoesNotAbortSweep ==
    [][(last'.op = "sweep" /\ last'.outcome = "raised")
       => \A o \in AuctionIds :
             (/\ auctions[o].state = "live"
              /\ auctions[o].end_time # NULL
              /\ auctions[o].end_time < now)
             => auctions'[o].state = "finished"
      ]_vars

\* C16: under create, publish, bid and sweep operations an auction starts in
\* setup and its state changes only setup -> live by its publish, live ->
\* finished by a sweep, and live -> setup by a sweep that saw its end_time
\* null; a finished auction changes state no more and no auction goes from
\* setup to finished.  (Admin patches are not among these operations.)
C16_StateTransitions ==
    [][last'.op # "update"
       => /\ \A a \in AuctionIds :
                auctions'[a].state # auctions[a].state
                => \/ /\ auctions[a].state = "setup"
                      /\ auctions'[a].state = "live"
                      /\ last'.op = "publish"
                      /\ last'.auction = a
                   \/ /\ auctions[a].state = "live"
                      /\ auctions'[a].state = "finished"
                      /\ last'.op = "sweep"
                   \/ /\ auctions[a].state = "live"
                      /\ auctions'[a].state = "setup"
                      /\ last'.op = "sweep"
                      /\ auctions[a].end_time = NULL
          /\ \A a \in 1..Len(auctions') \ AuctionIds : auctions'[a].state = "setup"
      ]_vars

\* a sweep moved one live auction without end_time back to setup and another
\* one from live to finished
C16_Witness ==
    /\ last.op = "sweep"
    /\ \E a \in last.reset, o \in AuctionIds :
          /\ auctions[a].state = "setup"
          /\ auctions[a].start_time # NULL
          /\ auctions[o].state = "finished"
          /\ last.commits[o] = 1

\* C17: in every reachable state an auction whose sold_price is set has bids
\* and sold_price is the largest amount among them; if the auction was ended
\* by an instant-buy bid, sold_price is instant_buy_price and buyer_id is the
\* bidder of that bid, the last bid of the auction.
C17_SoldPriceIsHighestBid ==
    \A a \in AuctionIds :
        auctions[a].sold_price # NULL
        => LET bs == AuctionBids(a) IN
           /\ bs # <<>>
           /\ auctions[a].sold_price = HighestAmount(a)
           /\ auctions[a].instant_buy
              => /\ auctions[a].sold_price = auctions[a].instant_buy_price
                 /\ bs[Len(bs)].amount = auctions[a].instant_buy_price
                 /\ auctions[a].buyer_id = bs[Len(bs)].bidder_id

\* an auction with an earlier bid of another user was ended by an instant buy
\* that offered more than instant_buy_price, and then settled
C17_Witness ==
    /\ last.op = "sweep"
    /\ \E a \in AuctionIds :
          LET bs == AuctionBids(a) IN
          /\ auctions[a].state = "finished"
          /\ auctions[a].instant_buy
          /\ Len(bs) = 2
          /\ bs[1].bidder_id # bs[2].bidder_id
          /\ auctions[a].sold_price = 2
          /\ auctions[a].buyer_id = bs[2].bidder_id

\* auction a is published with a deadline the clock can pass
PublishedToEnd(a) ==
    /\ a \in AuctionIds
    /\ auctions[a].state = "live"
    /\ auctions[a].end_time # NULL
    /\ auctions[a].end_time < MaxTime

\* auction a is finished, sold to the bidder of its highest bid if it has bids
FinishedToHighestBidder(a) ==
    /\ a \in AuctionIds
    /\ auctions[a].state = "finished"
    /\ AuctionBids(a) # <<>>
       => /\ auctions[a].sold_price = HighestAmount(a)
          /\ \E i \in DOMAIN AuctionBids(a) :
                /\ AuctionBids(a)[i].amount = HighestAmount(a)
                /\ AuctionBids(a)[i].bidder_id = auctions[a].buyer_id

C19_OverlappingSweepsSettleOnce ==
    [][last'.op = "sweep_row" /\ last'.committed
          => /\ auctions[last'.auction].state = "live"
             /\ outbox[last'.auction] = <<>>]_vars

\* C20: when two bid requests on an auction interleave, every committed bid
\* other than the first is at least min_bid above the highest bid committed
\* before it, and two bids that were checked against the same highest bid are
\* never both committed.
C20_InterleavedBidsKeepIncrement ==
    [][last'.op = "bid_commit" /\ last'.outcome = "accepted"
          => /\ AuctionBids(last'.auction) # <<>>
                => last'.amount >= HighestAmount(last'.auction) + Increment(last'.auction)
             /\ ~last'.raced]_vars

\* C21: in every committed state, an auction with a winning bid is finished
\* with buyer_id and sold_price set exactly when its product is marked sold;
\* the product is never sold while the auction is live.
C21_SoldExactlyWhenSettled ==
    \A a \in AuctionIds :
        HighestAmount(a) > 0
        => ((/\ auctions[a].state = "finished"
             /\ auctions[a].buyer_id # NULL
             /\ auctions[a].sold_price # NULL)
            <=> products[auctions[a].product_id].sold)

\* C22: an accepted instant-buy bid finishes the auction itself: when the bid
\* operation ends the auction is finished, with the bidder as buyer and the
\* stored amount of the bid as sold_price, without a sweep.
C22_InstantBuyFinishesAuction ==
    [][\A a \in AuctionIds :
          (BidOn(a) /\ last'.outcome = "instant_buy")
          => /\ auctions'[a].state = "finished"
             /\ auctions'[a].buyer_id = bids'[Len(bids')].bidder_id
             /\ auctions'[a].sold_price = bids'[Len(bids')].amount
      ]_vars

\* C23: when several bids of an auction share the maximum amount,
\* get_highest_bid returns the one with the earliest created_at.
C23_TieGoesToEarliestBid ==
    \A a \in AuctionIds :
        AuctionBids(a) # <<>>
        => /\ get_highest_bid(AuctionBids(a)).amount = HighestAmount(a)
           /\ \A i \in DOMAIN AuctionBids(a) :
                 AuctionBids(a)[i].amount = HighestAmount(a)
                 => get_highest_bid(AuctionBids(a)).created_at
                        <= AuctionBids(a)[i].created_at

\* C24: each product has at most one auction in state setup or live.
C24_OneActiveAuctionPerProduct ==
    \A a \in AuctionIds, b \in AuctionIds :
        (/\ auctions[a].product_id = auctions[b].product_id
         /\ auctions[a].state \in {"setup", "live"}
         /\ auctions[b].state \in {"setup", "live"})
        => a = b

\* C25: has_ended is true exactly when the auction is finished, or its
\* end_time is set and has passed, or instant_buy is true, whether or not
\* end_time is null.
C25_HasEndedExactly ==
    \A a \in AuctionIds :
        has_ended(auctions[a], now)
        <=> \/ auctions[a].state = "finished"
            \/ auctions[a].end_time # NULL /\ auctions[a].end_time < now
            \/ auctions[a].instant_buy

\* C26: a sweep that runs to its end examines every live auction, however
\* many there are: no live auction whose end_time has passed is left live
\* because other live auctions exist.
C26_SweepSkipsNoEndedAuction ==
    [][last'.op = "sweep" /\ last'.outcome = "returned"
          => \A a \in AuctionIds :
                (/\ auctions[a].state = "live"
                 /\ auctions[a].end_time # NULL
                 /\ auctions[a].end_time < now)
                => auctions'[a].state = "finished"]_vars

\* C27: an auction in state setup has start_time, end_time and buyer_id null,
\* also after the sweep has reset it to setup by self-heal.
C27_SetupHasNoTimesNoBuyer ==
    \A a \in AuctionIds :
        auctions[a].state = "setup"
        => /\ auctions[a].start_time = NULL
           /\ auctions[a].end_time = NULL
           /\ auctions[a].buyer_id = NULL

\* C28: under create, publish, bid and sweep operations every live auction
\* has start_time and end_time set, and no sweep takes the self-heal branch.
C28_LiveHasTimes ==
    /\ \A a \in AuctionIds :
          auctions[a].state = "live"
          => auctions[a].start_time # NULL /\ auctions[a].end_time # NULL
    /\ last.op = "sweep" => last.reset = {}

\* a sweep has run over two live auctions, one bought instantly and settled,
\* the other with a bid and not yet ended
C28_Witness ==
    /\ last.op = "sweep"
    /\ Len(last.finished) = 1
    /\ auctions[last.finished[1]].instant_buy
    /\ \E a \in AuctionIds : auctions[a].state = "live" /\ AuctionBids(a) # <<>>

\* C29: once an auction is finished, no publish, bid or sweep changes its
\* state, buyer_id, sold_price, end_time or its bids.
C29_FinishedIsFrozen ==
    [][\A a \in AuctionIds :
          auctions[a].state = "finished"
          => /\ auctions'[a].state = "finished"
             /\ auctions'[a].buyer_id = auctions[a].buyer_id
             /\ auctions'[a].sold_price = auctions[a].sold_price
             /\ auctions'[a].end_time = auctions[a].end_time
             /\ BidsOf(bids', a) = BidsOf(bids, a)
      ]_vars

\* a bid that reaches the instant-buy price was placed on an auction that is
\* finished with a buyer, and was refused
C29_Witness ==
    /\ last.op = "bid"
    /\ last.outcome = "cannot_bid"
    /\ auctions[last.auction].state = "finished"
    /\ auctions[last.auction].buyer_id # NULL
    /\ auctions[last.auction].instant_buy

\* C30: the min_required_bid of a "too low" rejection is exact: a bid of that
\* amount is accepted in the same auction state and no smaller amount is.
C30_MinRequiredBidIsExact ==
    [][\A a \in AuctionIds :
          (BidOn(a) /\ last'.outcome = "too_low")
          => LET min_required_bid ==
                     calculate_min_required_bid(auctions[a], CurrentHighestBid(a),
                                                EffectiveMinBid(auctions[a]))
             IN /\ BidOutcome(a, min_required_bid, now) \in {"accepted", "instant_buy"}
                /\ \A smaller \in 1..(min_required_bid - 1) :
                       BidOutcome(a, smaller, now) \notin {"accepted", "instant_buy"}
      ]_vars

\* C31: no auction is created for a product whose sold flag is true: both
\* creation entry points reject a sold product and create nothing.
C31_NoAuctionForSoldProduct ==
    [][Len(auctions') > Len(auctions)
       => ~products[auctions'[Len(auctions')].product_id].sold]_vars

C33_MailFailureKeepsSettlement ==
    [][(last'.op = "sweep" /\ last'.outcome = "raised")
       => \E a \in AuctionIds :
             LET highest_bid == get_highest_bid(AuctionBids(a)) IN
             /\ auctions[a].state = "live"
             /\ \A i \in DOMAIN last'.finished : last'.finished[i] # a
             /\ auctions'[a].state = "finished"
             /\ IF HasWinner(highest_bid)
                THEN /\ auctions'[a].buyer_id = highest_bid.bidder_id
                     /\ auctions'[a].sold_price = highest_bid.amount
                     /\ products'[auctions[a].product_id].sold
                ELSE /\ auctions'[a].buyer_id = NULL
                     /\ auctions'[a].sold_price = NULL
      ]_vars

\* a sweep was left by a failed notification of an auction with a winner,
\* and that auction is stored as finished and sold
C33_Witness ==
    /\ last.op = "sweep"
    /\ last.outcome = "raised"
    /\ \E a \in AuctionIds :
          /\ last.commits[a] = 1
          /\ \A i \in DOMAIN last.finished : last.finished[i] # a
          /\ auctions[a].state = "finished"
          /\ auctions[a].buyer_id # NULL
          /\ auctions[a].sold_price # NULL
          /\ products[auctions[a].product_id].sold

\* the sweep run now, on the rows in this order, settles auction a
SweepWouldSettle(order, a) ==
    \E st \in {process_finished_auctions(order, {})} :
        \E i \in DOMAIN st.finished : st.finished[i] = a

\* C34: for every live auction with end_time set, a bid is refused by
\* has_ended exactly when a sweep run at the same instant would settle the
\* auction: no auction is open for bids and due for settlement at once.
C34_BidAndSweepAgreeOnEnded ==
    \A a \in AuctionIds :
        (auctions[a].state = "live" /\ auctions[a].end_time # NULL)
        => \A amt \in Amounts, order \in LiveOrders :
               (BidOutcome(a, amt, now) = "cannot_bid") <=> SweepWouldSettle(order, a)

\* a bid on a live auction past its end_time was refused, and a sweep run at
\* that instant would settle the auction
C34_Witness ==
    /\ last.op = "bid"
    /\ last.outcome = "cannot_bid"
    /\ auctions[last.auction].state = "live"
    /\ ~auctions[last.auction].instant_buy
    /\ auctions[last.auction].end_time < now
    /\ \A order \in LiveOrders : SweepWouldSettle(order, last.auction)

\* C35: under any interleaving of a bid request and a sweep on one auction,
\* no bid is committed to an auction after it was settled, and a finished
\* auction with bids has the highest of its committed bids as sold_price and
\* that bid's bidder as buyer.
C35_NoBidAfterSettlement ==
    [][\A a \in AuctionIds :
          auctions[a].state = "finished"
          => /\ BidsOf(bids', a) = BidsOf(bids, a)
             /\ BidsOf(bids', a) # <<>>
                => /\ auctions'[a].sold_price = get_highest_bid(BidsOf(bids', a)).amount
                   /\ auctions'[a].buyer_id = get_highest_bid(BidsOf(bids', a)).bidder_id
      ]_vars

\* C36: in every committed state, also between the two commits of the
\* instant-buy branch, no bid of an auction with instant_buy_price set has an
\* amount above instant_buy_price.
C36_NoUnclampedBidStored ==
    \A i \in DOMAIN bids :
        LET db_auction == auctions[bids[i].auction_id] IN
        Truthy(db_auction.instant_buy_price)
        => bids[i].amount <= db_auction.instant_buy_price

\* C37: a rejected bid has no effect: when bid_on_auction raises (auction not
\* biddable, or bid too low), the bids, the auction's instant_buy, end_time
\* and state, and the product's sold flag are unchanged.
C37_RejectedBidHasNoEffect ==
    [][\A a \in AuctionIds :
          (BidOn(a) /\ last'.outcome \in {"cannot_bid", "too_low"})
          => /\ bids' = bids
             /\ auctions'[a].instant_buy = auctions[a].instant_buy
             /\ auctions'[a].end_time = auctions[a].end_time
             /\ auctions'[a].state = auctions[a].state
             /\ products'[auctions[a].product_id].sold = products[auctions[a].product_id].sold
      ]_vars

\* a bid was rejected as too low on a live auction that has a bid and an
\* instant-buy price
C37_Witness ==
    /\ last.op = "bid"
    /\ last.outcome = "too_low"
    /\ auctions[last.auction].state = "live"
    /\ AuctionBids(last.auction) # <<>>
    /\ Truthy(auctions[last.auction].instant_buy_price)
    /\ ~auctions[last.auction].instant_buy

\* C38: whenever an auction's sold_price is set it is at least the auction's
\* starting_price, also on the instant-buy path with instant_buy_price below
\* starting_price.
C38_SoldPriceAtLeastStartingPrice ==
    \A a \in AuctionIds :
        (auctions[a].sold_price # NULL /\ auctions[a].starting_price # NULL)
        => auctions[a].sold_price >= auctions[a].starting_price

\* C39: a product is sold to at most one buyer: at most one auction of a
\* product is finished with a buyer_id.
C39_ProductSoldOnce ==
    \A a, b \in AuctionIds :
        (/\ auctions[a].product_id = auctions[b].product_id
         /\ auctions[a].state = "finished" /\ auctions[a].buyer_id # NULL
         /\ auctions[b].state = "finished" /\ auctions[b].buyer_id # NULL)
        => a = b

\* C10: a settlement that assigns a buyer sends exactly one notification to
\* the owner and exactly one to that buyer.
C10_OwnerAndBuyerNotified ==
    [][\A a \in AuctionIds :
          (Settles(a) /\ auctions'[a].buyer_id # NULL)
          => outbox'[a] = outbox[a] \o <<auctions[a].owner_id, auctions'[a].buyer_id>>
      ]_vars

====
